---- MODULE Spec2Model ----
(***************************************************************************)
(* Model of the price checker orchestrator of cross_chain_price_checker:   *)
(* PriceChecker.get_token_prices / check_token_price (the fan-out to the   *)
(* exchange adapters and the join) and PriceChecker.analyze_prices (the    *)
(* statistics and the pairwise arbitrage scan).                            *)
(*                                                                         *)
(* Prices are Python floats in the source.  The model uses integers for    *)
(* prices and exact rationals [num, den] (den > 0) for every derived       *)
(* percentage, compared by cross multiplication, so that a comparison in   *)
(* the model is the comparison of the exact values the code computes.      *)
(***************************************************************************)
EXTENDS Integers, Sequences, FiniteSets, TLC

VARIABLES
    pc,             \* position of the running call
    exchanges,      \* PriceChecker.exchanges: names of the enabled adapters
    min_diff,       \* config comparison.min_price_difference_percent
    token_info,     \* result of search_token: <<>> is None, <<info>> a dict
    tasks,          \* the coroutines handed to asyncio.gather, in order
    results,        \* per task: pending, an ExchangePrice or an Exception
    raised,         \* TRUE when get_token_prices ended with an exception
    prices,         \* the list of ExchangePrice (returned / analysed)
    analysis,       \* result of the last analyze_prices call
    calls,          \* number of analyze_prices calls made on `prices`
    resolver,       \* the TokenResolver: its AsyncCache, the clock, the last call
    retry,          \* one call through a retry_on_failure wrapper
    multi,          \* one check_multiple_tokens call
    concurrent,     \* two get_token_prices calls sharing the resolver's session
    loop,           \* the event loop running the gathered adapter coroutines
    cache,          \* one AsyncCache under get / set / clear
    manager         \* the WebSocket ConnectionManager

vars == <<pc, exchanges, min_diff, token_info, tasks, results, raised,
          prices, analysis, calls, resolver, retry, multi,
          concurrent, loop, cache, manager>>

----------------------------------------------------------------------------
(* Bounds of the model *)

MaxQuotes == 3
MaxCalls == 2

----------------------------------------------------------------------------
(* Values *)

\* price = None
NoPrice == -1000000
\* error = None
NoError == "None"

\* a rational number num / den
Rat(n, d) == IF d < 0 THEN [num |-> -n, den |-> -d] ELSE [num |-> n, den |-> d]
RatGE(a, b) == a.num * b.den >= b.num * a.den
RatGT(a, b) == a.num * b.den > b.num * a.den
RatEq(a, b) == a.num * b.den = b.num * a.den
RatAbs(a) == [num |-> (IF a.num < 0 THEN -a.num ELSE a.num), den |-> a.den]

\* exchange names in the order _setup_exchanges appends them
ExchangeNames ==
    <<"Uniswap V2", "Uniswap V3", "PancakeSwap V2", "Raydium", "Binance", "Bybit">>

ExchangeType(name) ==
    IF name \in {"Binance", "Bybit", "Kraken", "OKX"} THEN "CEX" ELSE "DEX"

\* chain whose address a DEX adapter needs
ExchangeChain(name) ==
    CASE name \in {"Uniswap V2", "Uniswap V3"} -> "ethereum"
      [] name = "PancakeSwap V2" -> "bsc"
      [] name = "Raydium" -> "solana"
      [] OTHER -> "none"

Chains == {"ethereum", "bsc", "solana"}

DefaultMinDiff == Rat(1, 2)

\* ExchangePrice
ExchangePrice(name, price, error) ==
    [exchange_name |-> name, price |-> price, error |-> error]

is_valid_no_positive_check(p) == p.price # NoPrice /\ p.error = NoError

is_valid(p) == p.price # NoPrice /\ p.price > 0 /\ p.error = NoError

_create_error_price_with_price(name, error) == ExchangePrice(name, 200, error)

\* base.py lines 76-84
_create_error_price(name, error) == ExchangePrice(name, NoPrice, error)

\* a dict without keys
EmptyMap == [k \in {} |-> 0]

\* TokenResolver.__init__: an empty cache; no call made yet
ResolverNew ==
    [_cache |-> EmptyMap, _timestamps |-> EmptyMap, now |-> 0, searches |-> 0,
     last |-> [query |-> "", at |-> 0, result |-> <<>>, outcome |-> "none",
              fetches |-> 0],
     resolved |-> EmptyMap, seen |-> {}]

\* no call through a retry wrapper is running
RetryIdle == [status |-> "idle"]

\* no check_multiple_tokens call is running
MultiIdle == [status |-> "idle"]

\* no concurrent get_token_prices calls are running
ConcurrentIdle == [status |-> "idle"]

\* no event loop is running adapter coroutines
LoopIdle == [status |-> "idle"]

\* no AsyncCache is exercised on its own
CacheIdle == [status |-> "idle"]

\* no ConnectionManager is in use
ManagerIdle == [status |-> "idle"]

----------------------------------------------------------------------------
(* utils.calculate_price_difference *)

calculate_price_difference(price1, price2) ==
    IF price2 = 0 THEN Rat(0, 1)
    ELSE Rat((price1 - price2) * 100, price2)

----------------------------------------------------------------------------
(* PriceChecker.analyze_prices *)

valid_prices(ps) == SelectSeq(ps, is_valid)

SeqMin(s) == CHOOSE m \in {s[k] : k \in 1..Len(s)} : \A k \in 1..Len(s) : m <= s[k]
SeqMax(s) == CHOOSE m \in {s[k] : k \in 1..Len(s)} : \A k \in 1..Len(s) : m >= s[k]

RECURSIVE SeqSum(_)
SeqSum(s) == IF s = <<>> THEN 0 ELSE Head(s) + SeqSum(Tail(s))

ArbitrageOpportunity(be, se, bp, sp, diff, profit) ==
    [buy_exchange |-> be, sell_exchange |-> se, buy_price |-> bp,
     sell_price |-> sp, price_difference_percent |-> diff,
     potential_profit_percent |-> profit]

make_opportunity_swapped(price1, price2, diff_percent) ==
    LET first == price1.price > price2.price
        buy == IF first THEN price1 ELSE price2
        sell == IF first THEN price2 ELSE price1
    IN  ArbitrageOpportunity(buy.exchange_name, sell.exchange_name,
            buy.price, sell.price, diff_percent,
            Rat((sell.price - buy.price) * 100, buy.price))

\* lines 190-211: the body of the `if diff_percent >= min_diff`
make_opportunity(price1, price2, diff_percent) ==
    LET first == price1.price < price2.price
        buy == IF first THEN price1 ELSE price2
        sell == IF first THEN price2 ELSE price1
    IN  ArbitrageOpportunity(buy.exchange_name, sell.exchange_name,
            buy.price, sell.price, diff_percent,
            Rat((sell.price - buy.price) * 100, buy.price))

\* lines 185-211: for i, price1 in enumerate(valid): for price2 in valid[i+1:]
RECURSIVE find_opportunities(_, _, _, _)
find_opportunities(valid, i, j, t) ==
    IF i > Len(valid) THEN <<>>
    ELSE IF j > Len(valid) THEN find_opportunities(valid, i + 1, i + 2, t)
    ELSE LET price1 == valid[i]
             price2 == valid[j]
             diff_percent ==
                 RatAbs(calculate_price_difference(price1.price, price2.price))
         IN  (IF RatGE(diff_percent, t)
              THEN <<make_opportunity(price1, price2, diff_percent)>>
              ELSE <<>>)
             \o find_opportunities(valid, i, j + 1, t)

\* insertion of x into a list sorted by descending key
InsertBeforeEqual(s, x) ==
    LET n == Cardinality({k \in 1..Len(s) :
                 RatGT(s[k].potential_profit_percent, x.potential_profit_percent)})
    IN  SubSeq(s, 1, n) \o <<x>> \o SubSeq(s, n + 1, Len(s))

\* stable: x goes after every element whose key is >= its own
InsertStable(s, x) ==
    LET n == Cardinality({k \in 1..Len(s) :
                 RatGE(s[k].potential_profit_percent, x.potential_profit_percent)})
    IN  SubSeq(s, 1, n) \o <<x>> \o SubSeq(s, n + 1, Len(s))

\* line 214: opportunities.sort(key=potential_profit_percent, reverse=True)
RECURSIVE sort_opportunities(_)
sort_opportunities(opps) ==
    IF opps = <<>> THEN <<>>
    ELSE InsertStable(sort_opportunities(SubSeq(opps, 1, Len(opps) - 1)),
                      opps[Len(opps)])

analyze_prices(ps, t) ==
    LET valid == valid_prices(ps) IN
    IF valid = <<>>
    THEN [count |-> 0, valid_count |-> 0, error_count |-> Len(ps),
          prices |-> ps, opportunities |-> <<>>]
    ELSE LET price_values == [k \in 1..Len(valid) |-> valid[k].price]
             min_price == SeqMin(price_values)
             max_price == SeqMax(price_values)
         IN  IF min_price = 0
             THEN [exception |-> "ZeroDivisionError"]
             ELSE [count |-> Len(ps),
                   valid_count |-> Len(valid),
                   error_count |-> Len(ps) - Len(valid),
                   min_price |-> min_price,
                   max_price |-> max_price,
                   avg_price |-> Rat(SeqSum(price_values), Len(price_values)),
                   spread_percent |-> Rat((max_price - min_price) * 100, min_price),
                   prices |-> ps,
                   opportunities |->
                       sort_opportunities(find_opportunities(valid, 1, 2, t))]

prices_after_analyze_filtered(ps) == valid_prices(ps)

\* the input list after analyze_prices: the function builds new lists
\* (valid_prices, opportunities) and never assigns to the input or its items
prices_after_analyze(ps) == ps

NoAnalysis == [none |-> TRUE]

----------------------------------------------------------------------------
(* Inputs of the analyser *)

PriceValues == {100, 101, 105, 200, 201}

QuoteShapes ==
    {<<p, NoError>> : p \in PriceValues}
        \cup {<<NoPrice, "err">>, <<0, NoError>>, <<-5, NoError>>, <<100, "err">>}

\* configured thresholds tried: the default 0.5, then 5 and 0
MinDiffValues == <<DefaultMinDiff, Rat(5, 1), Rat(0, 1)>>

\* quote lists of length n; the k-th quote comes from the k-th exchange
QuoteLists(n) ==
    {[k \in 1..n |-> ExchangePrice(ExchangeNames[k], f[k][1], f[k][2])] :
        f \in [1..n -> QuoteShapes]}

InitAnalyze ==
    /\ pc = "input"
    /\ exchanges = <<>>
    /\ \E k \in 1..Len(MinDiffValues) : min_diff = MinDiffValues[k]
    /\ token_info = <<>>
    /\ tasks = <<>>
    /\ results = <<>>
    /\ raised = FALSE
    /\ \E n \in 0..MaxQuotes : prices \in QuoteLists(n)
    /\ analysis = NoAnalysis
    /\ calls = 0
    /\ resolver = ResolverNew
    /\ retry = RetryIdle
    /\ multi = MultiIdle
    /\ concurrent = ConcurrentIdle
    /\ loop = LoopIdle
    /\ cache = CacheIdle
    /\ manager = ManagerIdle

\* a caller invokes checker.analyze_prices(prices)
AnalyzePrices ==
    /\ pc \in {"input", "analyzed"}
    /\ calls < MaxCalls
    /\ analysis' = analyze_prices(prices, min_diff)
    /\ prices' = prices_after_analyze(prices)
    /\ calls' = calls + 1
    /\ pc' = "analyzed"
    /\ UNCHANGED <<exchanges, min_diff, token_info, tasks, results, raised>>
    /\ UNCHANGED <<resolver, retry, multi, concurrent, loop, cache, manager>>

NextAnalyze == AnalyzePrices

SpecAnalyze == InitAnalyze /\ [][NextAnalyze]_vars

----------------------------------------------------------------------------
(* Properties of analyze_prices *)

Analysed == pc = "analyzed" /\ "opportunities" \in DOMAIN analysis

Min2(a, b) == IF a < b THEN a ELSE b
Max2(a, b) == IF a < b THEN b ELSE a
AbsInt(a) == IF a < 0 THEN -a ELSE a

\* a quote that is not usable: an error, a missing price or a price <= 0
Unusable(q) == q.error # NoError \/ q.price = NoPrice \/ q.price <= 0

\* positions of the usable quotes of the input
UsableIdx == {k \in 1..Len(prices) : ~Unusable(prices[k])}

\* the opportunity, if any, emitted for the quotes at input positions i and j
OppsOfPair(i, j) ==
    {k \in 1..Len(analysis.opportunities) :
        {analysis.opportunities[k].buy_exchange,
         analysis.opportunities[k].sell_exchange}
            = {prices[i].exchange_name, prices[j].exchange_name}}

\* C3 (as claimed): a pair of valid quotes has an opportunity iff
\* |price_a - price_b| / min(price_a, price_b) * 100 >= threshold,
\* whichever of the two comes first in the input.
C3_OpportunityIffMinDenominator ==
    Analysed =>
        \A i, j \in UsableIdx : i < j =>
            (OppsOfPair(i, j) # {}
                <=> RatGE(Rat(AbsInt(prices[i].price - prices[j].price) * 100,
                              Min2(prices[i].price, prices[j].price)),
                          min_diff))

PermuteSeq(s, f) == [k \in 1..Len(s) |-> s[f[k]]]

OppKey(o) == <<o.buy_exchange, o.sell_exchange, o.buy_price, o.sell_price>>
OppKeys(a) == {OppKey(a.opportunities[k]) : k \in 1..Len(a.opportunities)}

SameStatistics(a, b) ==
    /\ DOMAIN a = DOMAIN b
    /\ a.count = b.count
    /\ a.valid_count = b.valid_count
    /\ a.error_count = b.error_count
    /\ "min_price" \in DOMAIN a =>
        /\ a.min_price = b.min_price
        /\ a.max_price = b.max_price
        /\ RatEq(a.avg_price, b.avg_price)
        /\ RatEq(a.spread_percent, b.spread_percent)

\* C4 (as claimed): every permutation of the input yields the same
\* statistics and the same set of opportunities (buy venue, sell venue,
\* buy price, sell price).
C4_ArrivalOrderIndependent ==
    Analysed =>
        \A f \in Permutations(1..Len(prices)) :
            LET other == analyze_prices(PermuteSeq(prices, f), min_diff)
            IN  /\ SameStatistics(analysis, other)
                /\ OppKeys(analysis) = OppKeys(other)

\* C5 (as claimed): when the spread between the lowest and the highest valid
\* price is at least the threshold, the opportunity list is non-empty and its
\* first element buys at the minimum and sells at the maximum with
\* profit_percent = spread_percent; quotes priced 100, 101, 105 with
\* threshold 0.5 give exactly 3 opportunities, the best 100 -> 105 at 5%.
C5_BestOpportunityIsSpread ==
    (Analysed /\ UsableIdx # {}) =>
        /\ RatGE(analysis.spread_percent, min_diff) =>
            /\ analysis.opportunities # <<>>
            /\ analysis.opportunities[1].buy_price = analysis.min_price
            /\ analysis.opportunities[1].sell_price = analysis.max_price
            /\ RatEq(analysis.opportunities[1].potential_profit_percent,
                     analysis.spread_percent)
        /\ ( /\ Cardinality(UsableIdx) = 3
             /\ {prices[k].price : k \in UsableIdx} = {100, 101, 105}
             /\ min_diff = DefaultMinDiff ) =>
            /\ Len(analysis.opportunities) = 3
            /\ analysis.opportunities[1].buy_price = 100
            /\ analysis.opportunities[1].sell_price = 105
            /\ RatEq(analysis.opportunities[1].potential_profit_percent, Rat(5, 1))

\* input position of the quote of an exchange
IdxOf(name) == CHOOSE k \in 1..Len(prices) : prices[k].exchange_name = name

\* the pair of input positions (lower, higher) an opportunity was built from
PairOf(o) ==
    <<Min2(IdxOf(o.buy_exchange), IdxOf(o.sell_exchange)),
      Max2(IdxOf(o.buy_exchange), IdxOf(o.sell_exchange))>>

ScannedBefore(p, q) == p[1] < q[1] \/ (p[1] = q[1] /\ p[2] < q[2])

\* C6: the opportunities are in non-increasing order of profit_percent, and
\* opportunities of equal profit_percent are in the order of the pairwise
\* scan: pair (i, j) before (i, k) for j < k, pairs of i before pairs of i+1.
C6_SortedDescendingStable ==
    Analysed =>
        \A a, b \in 1..Len(analysis.opportunities) : a < b =>
            LET x == analysis.opportunities[a]
                y == analysis.opportunities[b]
            IN  /\ RatGE(x.potential_profit_percent, y.potential_profit_percent)
                /\ RatEq(x.potential_profit_percent, y.potential_profit_percent)
                    => ScannedBefore(PairOf(x), PairOf(y))

\* two opportunities tie and a third one has another profit
C6_Witness ==
    /\ Analysed
    /\ \E a, b, c \in 1..Len(analysis.opportunities) :
        /\ a < b
        /\ RatEq(analysis.opportunities[a].potential_profit_percent,
                 analysis.opportunities[b].potential_profit_percent)
        /\ ~RatEq(analysis.opportunities[a].potential_profit_percent,
                  analysis.opportunities[c].potential_profit_percent)

\* C7: every opportunity is built from two distinct valid quotes of the
\* input, an unordered pair of quotes gives at most one opportunity, the buy
\* side is the lower-priced quote (buy_price <= sell_price), and
\* profit_percent = (sell_price - buy_price) / buy_price * 100 >= 0.
C7_OpportunityWellFormed ==
    Analysed =>
        /\ \A k \in 1..Len(analysis.opportunities) :
            LET o == analysis.opportunities[k] IN
            /\ \E i, j \in UsableIdx :
                /\ i # j
                /\ prices[i].exchange_name = o.buy_exchange
                /\ prices[i].price = o.buy_price
                /\ prices[j].exchange_name = o.sell_exchange
                /\ prices[j].price = o.sell_price
            /\ o.buy_price <= o.sell_price
            /\ RatEq(o.potential_profit_percent,
                     Rat((o.sell_price - o.buy_price) * 100, o.buy_price))
            /\ o.potential_profit_percent.num >= 0
            /\ o.potential_profit_percent.den > 0
        /\ \A i, j \in UsableIdx : i < j => Cardinality(OppsOfPair(i, j)) <= 1

\* an opportunity whose buy side comes later in the input than its sell side,
\* next to one in input order
C7_Witness ==
    /\ Analysed
    /\ \E a, b \in 1..Len(analysis.opportunities) :
        /\ IdxOf(analysis.opportunities[a].buy_exchange)
              > IdxOf(analysis.opportunities[a].sell_exchange)
        /\ IdxOf(analysis.opportunities[b].buy_exchange)
              < IdxOf(analysis.opportunities[b].sell_exchange)
        /\ analysis.opportunities[a].buy_price < analysis.opportunities[a].sell_price

\* C8: when no quote of the input is valid (empty input, or every quote has
\* an error, no price or a price <= 0) the call does not raise and returns
\* valid_count = 0 with an empty opportunity list.
C8_NoValidQuotes ==
    (pc = "analyzed" /\ UsableIdx = {}) =>
        /\ "exception" \notin DOMAIN analysis
        /\ analysis.valid_count = 0
        /\ analysis.opportunities = <<>>

\* analysed input with an error quote, a zero price and a negative price
C8_Witness ==
    /\ pc = "analyzed"
    /\ UsableIdx = {}
    /\ \E i, j, k \in 1..Len(prices) :
        /\ prices[i].error # NoError
        /\ prices[j].price = 0 /\ prices[j].error = NoError
        /\ prices[k].price < 0 /\ prices[k].price # NoPrice
    /\ analysis.valid_count = 0

----------------------------------------------------------------------------
(* PriceChecker.get_token_prices and check_token_price *)

\* _setup_exchanges: the adapters whose `enabled` flag is set, in the order
\* the method appends them
_setup_exchanges(enabled) == SelectSeq(ExchangeNames, LAMBDA n : n \in enabled)

TokenSymbol == "SOL"

\* the contract address of the token on a chain
AddressOn(chain) ==
    CASE chain = "ethereum" -> "0xeth"
      [] chain = "bsc" -> "0xbsc"
      [] chain = "solana" -> "mint"

\* what search_token can return: None, or the token with its addresses
TokenInfos ==
    {<<>>} \cup {<<[symbol |-> TokenSymbol,
                   platforms |-> [c \in P |-> AddressOn(c)]]>> : P \in SUBSET Chains}

RECURSIVE build_tasks_without_address_test(_, _)
build_tasks_without_address_test(exs, info) ==
    IF exs = <<>> THEN <<>>
    ELSE LET exchange == Head(exs)
             rest == build_tasks_without_address_test(Tail(exs), info)
         IN  IF ExchangeType(exchange) = "DEX"
             THEN <<[exchange |-> exchange,
                     args |-> <<IF ExchangeChain(exchange) \in DOMAIN info.platforms
                                THEN info.platforms[ExchangeChain(exchange)]
                                ELSE "None",
                                info.symbol>>]>> \o rest
             ELSE <<[exchange |-> exchange, args |-> <<info.symbol>>]>> \o rest

\* lines 115-133: one coroutine per exchange that can serve the token
RECURSIVE build_tasks(_, _)
build_tasks(exs, info) ==
    IF exs = <<>> THEN <<>>
    ELSE LET exchange == Head(exs)
             rest == build_tasks(Tail(exs), info)
         IN  IF ExchangeType(exchange) = "DEX"
             THEN IF ExchangeChain(exchange) \in DOMAIN info.platforms
                  THEN <<[exchange |-> exchange,
                          args |-> <<info.platforms[ExchangeChain(exchange)],
                                     info.symbol>>]>> \o rest
                  ELSE rest
             ELSE <<[exchange |-> exchange, args |-> <<info.symbol>>]>> \o rest

\* one entry of the list asyncio.gather works on
Pending == [type |-> "pending", exchange_name |-> "", price |-> NoPrice, error |-> NoError]
PriceResult(q) ==
    [type |-> "ExchangePrice", exchange_name |-> q.exchange_name,
     price |-> q.price, error |-> q.error]
ExceptionResult(text) ==
    [type |-> "Exception", exchange_name |-> "", price |-> NoPrice, error |-> text]

QuoteOf(r) == ExchangePrice(r.exchange_name, r.price, r.error)

FetchedPrices == {200, 201}

\* how a get_price coroutine can end: a valid ExchangePrice, an error
\* ExchangePrice, or an exception that leaves the adapter
AdapterOutcomes(name) ==
    {PriceResult(ExchangePrice(name, p, NoError)) : p \in FetchedPrices}
        \cup {PriceResult(_create_error_price(name, "No trading pairs found")),
              ExceptionResult("adapter failure")}

gather_propagating(rs) ==
    IF \E i \in 1..Len(rs) : rs[i].type = "Exception"
    THEN [raised |-> TRUE, values |-> <<>>]
    ELSE [raised |-> FALSE, values |-> rs]

\* line 140: asyncio.gather(*tasks, return_exceptions=True): exceptions are
\* returned in place, in the order of the tasks
gather(rs) == [raised |-> FALSE, values |-> rs]

RECURSIVE collect_valid_only(_)
collect_valid_only(rs) ==
    IF rs = <<>> THEN <<>>
    ELSE (IF Head(rs).type = "ExchangePrice" /\ is_valid(QuoteOf(Head(rs)))
          THEN <<QuoteOf(Head(rs))>> ELSE <<>>) \o collect_valid_only(Tail(rs))

gather_done_on_first_exception(rs) ==
    \/ \A i \in 1..Len(rs) : rs[i] # Pending
    \/ \E i \in 1..Len(rs) : rs[i].type = "Exception"

\* line 140: the await on gather ends when every awaitable has ended
gather_done(rs) == \A i \in 1..Len(rs) : rs[i] # Pending

\* lines 143-148: keep the ExchangePrice objects, log and drop the exceptions
RECURSIVE collect_prices(_)
collect_prices(rs) ==
    IF rs = <<>> THEN <<>>
    ELSE (IF Head(rs).type = "ExchangePrice"
          THEN <<QuoteOf(Head(rs))>> ELSE <<>>) \o collect_prices(Tail(rs))

Init ==
    /\ pc = "start"
    /\ \E enabled \in SUBSET {ExchangeNames[k] : k \in 1..Len(ExchangeNames)} :
           exchanges = _setup_exchanges(enabled)
    /\ min_diff = DefaultMinDiff
    /\ token_info = <<>>
    /\ tasks = <<>>
    /\ results = <<>>
    /\ raised = FALSE
    /\ prices = <<>>
    /\ analysis = NoAnalysis
    /\ calls = 0
    /\ resolver = ResolverNew
    /\ retry = RetryIdle
    /\ multi = MultiIdle
    /\ concurrent = ConcurrentIdle
    /\ loop = LoopIdle
    /\ cache = CacheIdle
    /\ manager = ManagerIdle

\* lines 101-112: resolve the token; an unresolved token ends the call
SearchToken ==
    /\ pc = "start"
    /\ \E info \in TokenInfos :
        /\ token_info' = info
        /\ IF info = <<>>
           THEN pc' = "returned" /\ prices' = <<>>
           ELSE pc' = "resolved" /\ UNCHANGED prices
    /\ UNCHANGED <<exchanges, min_diff, tasks, results, raised, analysis, calls>>
    /\ UNCHANGED <<resolver, retry, multi, concurrent, loop, cache, manager>>

\* lines 114-137: build the coroutines; none ends the call
Dispatch ==
    /\ pc = "resolved"
    /\ tasks' = build_tasks(exchanges, token_info[1])
    /\ IF tasks' = <<>>
       THEN pc' = "returned" /\ prices' = <<>> /\ UNCHANGED results
       ELSE /\ pc' = "gather"
            /\ results' = [i \in 1..Len(tasks') |-> Pending]
            /\ UNCHANGED prices
    /\ UNCHANGED <<exchanges, min_diff, token_info, raised, analysis, calls>>
    /\ UNCHANGED <<resolver, retry, multi, concurrent, loop, cache, manager>>

\* one of the gathered get_price coroutines ends
AdapterCompletes(i) ==
    /\ pc = "gather"
    /\ results[i] = Pending
    /\ \E o \in AdapterOutcomes(tasks[i].exchange) :
           results' = [results EXCEPT ![i] = o]
    /\ UNCHANGED <<pc, exchanges, min_diff, token_info, tasks, raised, prices,
                   analysis, calls>>
    /\ UNCHANGED <<resolver, retry, multi, concurrent, loop, cache, manager>>

\* lines 140-151: the join, then the filter
GatherReturns ==
    /\ pc = "gather"
    /\ gather_done(results)
    /\ LET g == gather(results) IN
        IF g.raised
        THEN raised' = TRUE /\ pc' = "raised" /\ UNCHANGED prices
        ELSE /\ prices' = collect_prices(g.values)
             /\ pc' = "returned"
             /\ UNCHANGED raised
    /\ UNCHANGED <<exchanges, min_diff, token_info, tasks, results, analysis, calls>>
    /\ UNCHANGED <<resolver, retry, multi, concurrent, loop, cache, manager>>

\* lines 238-239: check_token_price analyses what get_token_prices returned
CheckTokenPrice ==
    /\ pc = "returned"
    /\ analysis' = analyze_prices(prices, min_diff)
    /\ prices' = prices_after_analyze(prices)
    /\ calls' = calls + 1
    /\ pc' = "done"
    /\ UNCHANGED <<exchanges, min_diff, token_info, tasks, results, raised>>
    /\ UNCHANGED <<resolver, retry, multi, concurrent, loop, cache, manager>>

Next ==
    \/ SearchToken
    \/ Dispatch
    \/ \E i \in 1..Len(tasks) : AdapterCompletes(i)
    \/ GatherReturns
    \/ CheckTokenPrice

Spec == Init /\ [][Next]_vars

----------------------------------------------------------------------------
(* Properties of get_token_prices *)

Returned == pc \in {"returned", "done"}

Healthy(r) == r.type = "ExchangePrice" /\ r.error = NoError /\ r.price > 0
Failed(r) == r.type = "Exception" \/ (r.type = "ExchangePrice" /\ r.error # NoError)

\* positions of the returned list that hold a quote of the exchange
QuotesOf(name) == {k \in 1..Len(prices) : prices[k].exchange_name = name}

\* C1: get_token_prices never raises because an adapter failed (error Quote
\* or exception out of get_price), and the Quote of every healthy adapter is
\* in the returned list, unaltered.
C1_FailureIsolation ==
    /\ raised = FALSE
    /\ pc # "raised"
    /\ (Returned /\ tasks # <<>>) =>
        \A i \in 1..Len(tasks) : Healthy(results[i]) =>
            /\ QuotesOf(tasks[i].exchange) # {}
            /\ \A k \in QuotesOf(tasks[i].exchange) : prices[k] = QuoteOf(results[i])

\* returned with one adapter that raised, one that returned an error Quote
\* and one healthy adapter
C1_Witness ==
    /\ Returned
    /\ \E i, j, h \in 1..Len(tasks) :
        /\ results[i].type = "Exception"
        /\ results[j].type = "ExchangePrice" /\ results[j].error # NoError
        /\ Healthy(results[h])
        /\ \E k \in 1..Len(prices) : prices[k] = QuoteOf(results[h])

NumberOf(type) == Cardinality({i \in 1..Len(results) : results[i].type = type})

ResolutionErrorSignalled == raised \/ "error" \in DOMAIN analysis

\* what check_token_price returns for a token that was not resolved
UnknownTokenAnalysis == analyze_prices(<<>>, min_diff)

\* C10 (as claimed): when the token is not resolved no adapter call is
\* dispatched, the returned list is empty and the caller is told about the
\* resolution error, so the result of check_token_price for an unknown token
\* differs from the result for a known token without a usable price.
C10_ResolutionErrorSignalled ==
    pc = "done" =>
        /\ token_info = <<>> =>
            /\ tasks = <<>>
            /\ prices = <<>>
            /\ ResolutionErrorSignalled
        /\ (token_info # <<>> /\ valid_prices(prices) = <<>>) =>
            analysis # UnknownTokenAnalysis

\* C19: get_token_prices is a full join: it leaves the await on gather only
\* when no dispatched call is pending, and a call that ends (with a Quote, an
\* error Quote or an exception) while others are pending changes nothing but
\* its own result: the function stays in the join and the other calls stay
\* pending.
C19_FullJoin ==
    [][/\ (pc = "gather" /\ pc' # "gather")
          => /\ \A i \in 1..Len(results) : results[i] # Pending
             /\ results' = results
       /\ (pc = "gather" /\ results' # results)
          => /\ pc' = "gather"
             /\ \E i \in 1..Len(results) :
                   /\ results[i] = Pending
                   /\ results'[i] # Pending
                   /\ \A j \in 1..Len(results) : j # i => results'[j] = results[j]]_vars

\* one call has failed, another is still pending, and the join still waits
C19_Witness ==
    /\ pc = "gather"
    /\ \E i, j \in 1..Len(results) :
          /\ results[i].type = "Exception"
          /\ results[j] = Pending

\* the chain the claim names for an on-chain adapter
ClaimedChain(name) ==
    CASE name = "Uniswap V2" -> "ethereum"
      [] name = "Uniswap V3" -> "ethereum"
      [] name = "PancakeSwap V2" -> "bsc"
      [] name = "Raydium" -> "solana"

Dispatched(name) == \E i \in 1..Len(tasks) : tasks[i].exchange = name

\* C22: for a resolved token an enabled on-chain adapter is dispatched
\* exactly when the token has an address on the adapter's chain, with that
\* address; every enabled centralized adapter is dispatched with the symbol;
\* only enabled adapters are dispatched, each once; and a Quote is returned
\* only for a dispatched adapter.
C22_DispatchIffAddress ==
    (pc \notin {"start", "resolved"} /\ token_info # <<>>) =>
        LET info == token_info[1]
            enabled == {exchanges[k] : k \in 1..Len(exchanges)}
        IN  /\ \A name \in enabled \cap {"Uniswap V2", "Uniswap V3",
                                          "PancakeSwap V2", "Raydium"} :
                  /\ Dispatched(name) <=> ClaimedChain(name) \in DOMAIN info.platforms
                  /\ \A i \in 1..Len(tasks) :
                        tasks[i].exchange = name =>
                            tasks[i].args = <<info.platforms[ClaimedChain(name)],
                                              info.symbol>>
            /\ \A name \in enabled \cap {"Binance", "Bybit"} :
                  \E i \in 1..Len(tasks) :
                      tasks[i].exchange = name /\ tasks[i].args = <<info.symbol>>
            /\ \A i, j \in 1..Len(tasks) :
                  /\ tasks[i].exchange \in enabled
                  /\ tasks[i].exchange = tasks[j].exchange => i = j
            /\ \A k \in 1..Len(prices) : Dispatched(prices[k].exchange_name)

\* Raydium is enabled and skipped for want of a solana address, Uniswap V2
\* and Binance are dispatched, and the call has returned quotes
C22_Witness ==
    /\ pc = "returned"
    /\ token_info # <<>>
    /\ \E k \in 1..Len(exchanges) : exchanges[k] = "Raydium"
    /\ ~Dispatched("Raydium")
    /\ Dispatched("Uniswap V2")
    /\ Dispatched("Binance")
    /\ Len(prices) >= 2

----------------------------------------------------------------------------
(* utils.AsyncCache, as used by the TokenResolver *)

\* seconds of one clock step of the model
TimeUnit == 1800
\* TokenResolver.__init__: AsyncCache(ttl=3600)
CacheTTL == 3600
\* clock steps the model lets pass
MaxTicks == 3
\* search_token calls the model makes on one resolver
MaxSearches == 3

\* line 141: time.time() - self._timestamps[key] < self.ttl
cache_fresh(now, stamp, ttl) == now - stamp < ttl

MapRemove(f, key) == [k \in DOMAIN f \ {key} |-> f[k]]
MapPut(f, key, value) == [k \in DOMAIN f \cup {key} |-> IF k = key THEN value ELSE f[k]]

\* AsyncCache.get: the value (<<>> is None) and the cache afterwards; an
\* expired entry is deleted from both dicts
cache_get(r, key, now) ==
    IF key \in DOMAIN r._cache
    THEN IF cache_fresh(now, r._timestamps[key], CacheTTL)
         THEN [value |-> r._cache[key], r |-> r]
         ELSE [value |-> <<>>,
               r |-> [r EXCEPT !._cache = MapRemove(r._cache, key),
                               !._timestamps = MapRemove(r._timestamps, key)]]
    ELSE [value |-> <<>>, r |-> r]

cache_set_keeps_first_timestamp(r, key, value, now) ==
    [r EXCEPT !._cache = MapPut(r._cache, key, value),
              !._timestamps = IF key \in DOMAIN r._timestamps
                              THEN r._timestamps
                              ELSE MapPut(r._timestamps, key, now)]

\* AsyncCache.set
cache_set(r, key, value, now) ==
    [r EXCEPT !._cache = MapPut(r._cache, key, value),
              !._timestamps = MapPut(r._timestamps, key, now)]

\* AsyncCache.clear
cache_clear(r) == [r EXCEPT !._cache = EmptyMap, !._timestamps = EmptyMap]

----------------------------------------------------------------------------
(* TokenResolver.search_token and get_token_info *)

Queries == {"sol", "SOL", "Solana", "xyz"}

\* str.lower() on the strings of the model
Lower(str) ==
    CASE str = "SOL" -> "sol"
      [] str = "Solana" -> "solana"
      [] OTHER -> str

\* str.upper() on the symbols of the model
Upper(str) ==
    CASE str = "sol" -> "SOL"
      [] OTHER -> str

\* the answer of coins/list
CoinList == <<[id |-> "solana", symbol |-> "sol", name |-> "Solana"]>>

\* answers of coins/{id}: the platforms of the coin as CoinGecko names them
CoinData(id) ==
    {[id |-> id, symbol |-> "sol", name |-> "Solana",
      platforms |-> ("solana" :> "mint")],
     [id |-> id, symbol |-> "sol", name |-> "Solana",
      platforms |-> ("solana" :> "mint" @@ "binance-smart-chain" :> "0xbsc"
                        @@ "ethereum" :> "" @@ "tron" :> "T1")]}

PLATFORM_MAP ==
    ("ethereum" :> "ethereum" @@ "bsc" :> "binance-smart-chain"
        @@ "solana" :> "solana" @@ "polygon" :> "polygon-pos")

\* lines 146-152: our name of a CoinGecko platform
OurName(platform) ==
    IF \E our \in DOMAIN PLATFORM_MAP : PLATFORM_MAP[our] = platform
    THEN CHOOSE our \in DOMAIN PLATFORM_MAP : PLATFORM_MAP[our] = platform
    ELSE platform

\* lines 134-152: the token_info dict built from the answer
BuildTokenInfo(data) ==
    LET named == {p \in DOMAIN data.platforms : data.platforms[p] # ""}
    IN  [id |-> data.id, symbol |-> Upper(data.symbol), name |-> data.name,
         platforms |->
            [our \in {OurName(p) : p \in named} |->
                data.platforms[CHOOSE p \in named : OurName(p) = our]]]

search_key_as_typed(query) == <<"search", query>>

\* line 82: cache_key = f"search_{query.lower()}"
search_key(query) == <<"search", Lower(query)>>
\* line 120: cache_key = f"info_{coin_id}"
info_key(coin_id) == <<"info", coin_id>>

\* lines 93-96: the first coin whose symbol, name or id is the query
MatchingCoins(query) ==
    {k \in 1..Len(CoinList) :
        \/ Lower(CoinList[k].symbol) = Lower(query)
        \/ Lower(CoinList[k].name) = Lower(query)
        \/ Lower(CoinList[k].id) = Lower(query)}

get_token_info_failed_stub ==
    <<[id |-> "", symbol |-> "", name |-> "", platforms |-> EmptyMap]>>

\* lines 157-159: the except branch of get_token_info returns None
get_token_info_failed == <<>>

\* get_token_info(coin_id); `detail` is the answer of the metadata source to
\* coins/{id} after the retries: <<>> when the request failed, else <<data>>
get_token_info(r, coin_id, detail, now) ==
    LET got == cache_get(r, info_key(coin_id), now) IN
    IF got.value # <<>>
    THEN [r |-> got.r, value |-> got.value, fetches |-> 0, failed |-> FALSE]
    ELSE IF detail = <<>>
         THEN [r |-> got.r, value |-> get_token_info_failed, fetches |-> 1,
               failed |-> TRUE]
         ELSE LET info == <<BuildTokenInfo(detail[1])>>
              IN  [r |-> cache_set(got.r, info_key(coin_id), info, now),
                   value |-> info, fetches |-> 1, failed |-> FALSE]

\* search_token(query) called at time r.now; `listOK` tells whether coins/list
\* was fetched (after the retries), `took` is the time the fetch needed
search_token(r, query, listOK, detail, took) ==
    LET got == cache_get(r, search_key(query), r.now) IN
    IF got.value # <<>>
    THEN [r |-> got.r, result |-> got.value, outcome |-> "hit", fetches |-> 0]
    ELSE LET r1 == [got.r EXCEPT !.now = r.now + took] IN
         IF ~listOK
         THEN [r |-> r1, result |-> <<>>, outcome |-> "list_fetch_failed",
               fetches |-> 1]
         ELSE IF MatchingCoins(query) = {}
         THEN [r |-> r1, result |-> <<>>, outcome |-> "not_found", fetches |-> 1]
         ELSE LET coin == CoinList[CHOOSE k \in MatchingCoins(query) :
                                       \A m \in MatchingCoins(query) : k <= m]
                  info == get_token_info(r1, coin.id, detail, r1.now)
              IN  [r |-> cache_set(info.r, search_key(query), info.value, r1.now),
                   result |-> info.value,
                   outcome |-> IF info.failed THEN "detail_fetch_failed" ELSE "found",
                   fetches |-> 1 + info.fetches]

MaxTime == MaxTicks * TimeUnit

InitResolver ==
    /\ pc = "resolver"
    /\ exchanges = <<>>
    /\ min_diff = DefaultMinDiff
    /\ token_info = <<>>
    /\ tasks = <<>>
    /\ results = <<>>
    /\ raised = FALSE
    /\ prices = <<>>
    /\ analysis = NoAnalysis
    /\ calls = 0
    /\ resolver = ResolverNew
    /\ retry = RetryIdle
    /\ multi = MultiIdle
    /\ concurrent = ConcurrentIdle
    /\ loop = LoopIdle
    /\ cache = CacheIdle
    /\ manager = ManagerIdle

\* a caller awaits resolver.search_token(query)
ResolverSearch ==
    /\ pc = "resolver"
    /\ resolver.searches < MaxSearches
    /\ \E query \in Queries, listOK \in BOOLEAN, took \in {0, TimeUnit},
          detail \in {<<>>} \cup {<<d>> : d \in CoinData("solana")} :
        /\ resolver.now + took <= MaxTime
        /\ LET call == search_token(resolver, query, listOK, detail, took)
               last == [query |-> query, at |-> resolver.now, result |-> call.result,
                        outcome |-> call.outcome, fetches |-> call.fetches]
           IN  resolver' =
                 [call.r EXCEPT
                    !.searches = resolver.searches + 1,
                    !.last = last,
                    !.resolved =
                        IF call.outcome = "found"
                        THEN MapPut(resolver.resolved, Lower(query),
                                    [token |-> call.result, at |-> call.r.now,
                                     by |-> query])
                        ELSE resolver.resolved,
                    !.seen = resolver.seen \cup
                                {[outcome |-> call.outcome, result |-> call.result]}]
    /\ UNCHANGED <<pc, exchanges, min_diff, token_info, tasks, results, raised,
                   prices, analysis, calls, retry, multi,
                   concurrent, loop, cache, manager>>

\* time passes between two calls
ResolverTick ==
    /\ pc = "resolver"
    /\ resolver.now + TimeUnit <= MaxTime
    /\ resolver' = [resolver EXCEPT !.now = resolver.now + TimeUnit]
    /\ UNCHANGED <<pc, exchanges, min_diff, token_info, tasks, results, raised,
                   prices, analysis, calls, retry, multi,
                   concurrent, loop, cache, manager>>

NextResolver == ResolverSearch \/ ResolverTick

SpecResolver == InitResolver /\ [][NextResolver]_vars

----------------------------------------------------------------------------
(* Claims about the resolver cache *)

\* the step is one call of search_token
IsSearch == resolver'.searches = resolver.searches + 1

UnsuccessfulOutcomes == {"list_fetch_failed", "not_found", "detail_fetch_failed"}
TransientOutcomes == {"list_fetch_failed", "detail_fetch_failed"}

\* C11: after a successful search_token(q), a search_token(q') with q' equal
\* to q ignoring case, called less than 3600 s after q was resolved, returns
\* the token resolved for q and issues no request to the metadata source.
C11_CachedResolutionIsReused ==
    [][(/\ IsSearch
        /\ Lower(resolver'.last.query) \in DOMAIN resolver.resolved
        /\ resolver.now - resolver.resolved[Lower(resolver'.last.query)].at < CacheTTL)
       => /\ resolver'.last.result = resolver.resolved[Lower(resolver'.last.query)].token
          /\ resolver'.last.fetches = 0]_vars

\* "SOL" answered from the entry that "sol" (or the other way round) left,
\* some time after it was resolved
C11_Witness ==
    /\ resolver.last.outcome = "hit"
    /\ Lower(resolver.last.query) \in DOMAIN resolver.resolved
    /\ resolver.resolved[Lower(resolver.last.query)].by # resolver.last.query
    /\ resolver.last.at > resolver.resolved[Lower(resolver.last.query)].at

\* what AsyncCache.get would answer at time `now`: the unexpired entries that
\* hold a token
Readable(r, now) ==
    LET keys == {k \in DOMAIN r._cache :
                    /\ cache_fresh(now, r._timestamps[k], CacheTTL)
                    /\ r._cache[k] # <<>>}
    IN  [k \in keys |-> r._cache[k]]

\* C12 as stated: a search_token that ends without a token leaves the cache
\* with exactly the entries it had before.
C12_CacheUntouchedByFailure ==
    [][(IsSearch /\ resolver'.last.outcome \in UnsuccessfulOutcomes)
       => /\ resolver'._cache = resolver._cache
          /\ resolver'._timestamps = resolver._timestamps]_vars

\* C12: a search_token that ends without a token returns None and leaves
\* every readable entry of the cache as it was (it may store None under the
\* search key and delete an expired entry), and the next search_token for
\* the same query issues the external fetch again.
C12_FailureLeavesNoReadableEntry ==
    [][/\ (IsSearch /\ resolver'.last.outcome \in UnsuccessfulOutcomes)
          => /\ resolver'.last.result = <<>>
             /\ Readable(resolver', resolver'.now) = Readable(resolver, resolver'.now)
       /\ (/\ IsSearch
           /\ resolver.last.outcome \in UnsuccessfulOutcomes
           /\ Lower(resolver'.last.query) = Lower(resolver.last.query))
          => resolver'.last.fetches >= 1]_vars

\* a failed detail fetch left None under the search key, and the same query
\* was then looked up again at the source
C12_Witness ==
    /\ resolver.last.outcome \in UnsuccessfulOutcomes
    /\ resolver.last.fetches >= 1
    /\ search_key(resolver.last.query) \in DOMAIN resolver._cache
    /\ resolver._cache[search_key(resolver.last.query)] = <<>>
    /\ resolver._timestamps[search_key(resolver.last.query)] < resolver.now

\* C13: a confirmed 'not found' and a transient fetch failure never produce
\* the same return value of search_token.
C13_NotFoundDistinctFromTransient ==
    \A a, b \in resolver.seen :
        (a.outcome = "not_found" /\ b.outcome \in TransientOutcomes)
            => a.result # b.result

----------------------------------------------------------------------------
(* utils.retry_on_failure and the venue adapters it decorates *)

\* largest max_retries the model passes to retry_on_failure
MaxRetries == 3
\* the `delay` arguments of the model, in seconds
Delays == {1, 2}

\* failures of an operation: subclasses of Exception with the text str(e)
\* gives; a timeout can come with an empty text (asyncio.TimeoutError())
Exceptions ==
    {[cause |-> "network", text |-> "Cannot connect to host"],
     [cause |-> "malformed", text |-> "KeyError"],
     [cause |-> "timeout", text |-> ""],
     [cause |-> "timeout", text |-> "Connection timeout"]}

\* what one invocation of a wrapped operation ends with
Succeeded(value) == [ok |-> TRUE, value |-> value]
Failing(e) == [ok |-> FALSE, exception |-> e]
OperationOutcomes ==
    {Succeeded(v) : v \in {"v1", "v2"}} \cup {Failing(e) : e \in Exceptions}

attempts_remain_one_more(attempt, max_retries) == attempt < max_retries

\* lines 28, 45: if attempt < max_retries - 1
attempts_remain(attempt, max_retries) == attempt < max_retries - 1

backoff_constant(delay, attempt) == delay

\* lines 32, 50: delay * (attempt + 1)
backoff(delay, attempt) == delay * (attempt + 1)

\* asyncio.sleep in async_wrapper, time.sleep in sync_wrapper
SleepOf(wrapper) == IF wrapper = "async" THEN "asyncio.sleep" ELSE "time.sleep"

\* the wrapper starts: last_exception = None, attempt = 0
wrapper_start(wrapper, func, max_retries, delay) ==
    [status |-> "attempt", wrapper |-> wrapper, func |-> func,
     max_retries |-> max_retries, delay |-> delay, attempt |-> 0,
     invocations |-> 0, outcomes |-> <<>>, sleeps |-> <<>>,
     result |-> <<>>, exception |-> <<>>,
     lookup |-> 0, requests |-> 0, timeouts |-> 0, last_answer |-> [kind |-> "none"]]

\* lines 24-35 and 41-53: what the wrapper does when the invocation it made
\* ends with `outcome`
wrapper_after(w, outcome) ==
    LET done == [w EXCEPT !.outcomes = Append(w.outcomes, outcome)] IN
    IF outcome.ok
    THEN [done EXCEPT !.status = "returned", !.result = <<outcome.value>>]
    ELSE IF attempts_remain(w.attempt, w.max_retries)
         THEN [done EXCEPT !.status = "sleeping"]
         ELSE [done EXCEPT !.status = "raised", !.exception = <<outcome.exception>>]

\* the sleep is over: the next turn of `for attempt in range(max_retries)`
wrapper_after_sleep(w) ==
    [w EXCEPT !.status = "attempt",
              !.sleeps = Append(w.sleeps, [how |-> SleepOf(w.wrapper),
                                           seconds |-> backoff(w.delay, w.attempt)]),
              !.attempt = w.attempt + 1]

----------------------------------------------------------------------------
(* Exchange.get_price of the eight adapters *)

AdapterNames ==
    {"Binance", "Bybit", "Kraken", "OKX", "Raydium", "Uniswap V2", "Uniswap V3",
     "PancakeSwap V2"}

\* adapters that read a contract through web3
OnChain == {"Uniswap V2", "Uniswap V3", "PancakeSwap V2"}

\* venue requests one get_price makes at most: quote currencies, quote
\* tokens, quote tokens times fee tiers
Lookups(name) ==
    CASE name = "Binance" -> 3
      [] name = "Bybit" -> 2
      [] name = "Uniswap V2" -> 3
      [] name = "Uniswap V3" -> 8
      [] name = "PancakeSwap V2" -> 4
      [] OTHER -> 1

\* adapters whose request sits in a try of its own inside the loop
InnerTry(name) ==
    name \in {"Binance", "Bybit", "Uniswap V2", "Uniswap V3", "PancakeSwap V2"}

\* the error of the Quote returned when no request gave a price
NothingFound(name) ==
    CASE name \in {"Binance", "Bybit", "Kraken", "OKX"} -> "No trading pairs found"
      [] name = "Uniswap V3" -> "No liquid pools found"
      [] OTHER -> "No liquid pairs found"

\* what the venue answers to one request
VenueAnswers ==
    {[kind |-> "price", price |-> p] : p \in FetchedPrices}
        \cup {[kind |-> "zero"], [kind |-> "non200"], [kind |-> "api_error"]}
        \cup {[kind |-> "exception", exception |-> e] : e \in Exceptions}

Return(quote) == [kind |-> "return", quote |-> quote]
Continue == [kind |-> "continue"]
Raise(e) == [kind |-> "raise", exception |-> e]

\* the body of one request: a Quote to return, nothing usable, or an
\* exception
request_result(name, answer) ==
    CASE answer.kind = "price" ->
            Return(ExchangePrice(name, answer.price, NoError))
      [] answer.kind = "zero" -> Continue
      [] answer.kind = "non200" ->
            IF name = "Raydium"
            THEN Return(_create_error_price(name, "API returned status 500"))
            ELSE IF name \in OnChain
                 THEN Raise([cause |-> "network", text |-> "500 Server Error"])
                 ELSE Continue
      [] answer.kind = "api_error" ->
            IF name = "Kraken"
            THEN Return(_create_error_price(name, "EQuery:Unknown asset pair"))
            ELSE IF name \in OnChain
                 THEN Raise([cause |-> "malformed", text |-> "execution reverted"])
                 ELSE IF name = "Raydium"
                      THEN Raise([cause |-> "malformed", text |-> "AttributeError"])
                      ELSE Continue
      [] OTHER -> Raise(answer.exception)

outer_except_reraises(name, e) == Raise(e)

\* the `except Exception as e` around the whole body of get_price
outer_except(name, e) == Return(_create_error_price(name, e.text))

\* get_price resumes with the venue's answer to the request it awaits; w is
\* the wrapper that invoked it
get_price_request(w, answer) ==
    LET name == w.func
        r == request_result(name, answer)
        timed_out == answer.kind = "exception" /\ answer.exception.cause = "timeout"
        w1 == [w EXCEPT !.requests = w.requests + 1,
                        !.timeouts = w.timeouts + (IF timed_out THEN 1 ELSE 0),
                        !.last_answer = answer]
        ending ==
            CASE r.kind = "return" -> r
              [] r.kind = "raise" /\ ~InnerTry(name) -> outer_except(name, r.exception)
              [] w.lookup < Lookups(name) -> Continue
              [] OTHER -> Return(_create_error_price(name, NothingFound(name)))
    IN  CASE ending.kind = "continue" -> [w1 EXCEPT !.lookup = w.lookup + 1]
          [] ending.kind = "return" -> wrapper_after(w1, Succeeded(ending.quote))
          [] OTHER -> wrapper_after(w1, Failing(ending.exception))

\* the `timeout=10` every HTTP adapter passes to its request
AdapterTimeout == 10
\* the web3 adapters build Web3.HTTPProvider(rpc_url) and pass no timeout
NoTimeoutArgument == -1

\* the section `comparison` of the configuration: the defaults of
\* config.py lines 82-83 and values a user file can set
Comparisons ==
    {[max_retries |-> n, timeout_seconds |-> t] : n \in {3, 1, 2}, t \in {10, 30}}

\* the calls through retry_on_failure the model makes: any operation with
\* any arguments, and get_price of each adapter as decorated in the source
RetryCalls ==
    {wrapper_start(wr, "operation", n, d) :
        wr \in {"async", "sync"}, n \in 1..MaxRetries, d \in Delays}
    \cup {wrapper_start("async", name, 3, 1)
              @@ [config |-> comparison,
                  timeout |-> IF name \in OnChain THEN NoTimeoutArgument
                              ELSE AdapterTimeout] :
            name \in AdapterNames, comparison \in Comparisons}

InitRetry ==
    /\ pc = "retry"
    /\ exchanges = <<>>
    /\ min_diff = DefaultMinDiff
    /\ token_info = <<>>
    /\ tasks = <<>>
    /\ results = <<>>
    /\ raised = FALSE
    /\ prices = <<>>
    /\ analysis = NoAnalysis
    /\ calls = 0
    /\ resolver = ResolverNew
    /\ retry = RetryIdle
    /\ multi = MultiIdle
    /\ concurrent = ConcurrentIdle
    /\ loop = LoopIdle
    /\ cache = CacheIdle
    /\ manager = ManagerIdle

\* a caller calls the decorated function
RetryCall ==
    /\ pc = "retry"
    /\ retry.status = "idle"
    /\ retry' \in RetryCalls
    /\ UNCHANGED <<pc, exchanges, min_diff, token_info, tasks, results, raised,
                   prices, analysis, calls, resolver, multi,
                   concurrent, loop, cache, manager>>

\* lines 25, 42: the wrapper invokes the operation, which succeeds or fails
RetryInvokeOperation ==
    /\ pc = "retry"
    /\ retry.status = "attempt"
    /\ retry.func = "operation"
    /\ \E outcome \in OperationOutcomes :
        retry' = wrapper_after([retry EXCEPT !.invocations = retry.invocations + 1],
                               outcome)
    /\ UNCHANGED <<pc, exchanges, min_diff, token_info, tasks, results, raised,
                   prices, analysis, calls, resolver, multi,
                   concurrent, loop, cache, manager>>

\* line 25: the wrapper invokes get_price, which runs up to its first request
RetryInvokeAdapter ==
    /\ pc = "retry"
    /\ retry.status = "attempt"
    /\ retry.func \in AdapterNames
    /\ retry' = [retry EXCEPT !.status = "request",
                              !.invocations = retry.invocations + 1,
                              !.lookup = 1, !.requests = 0, !.timeouts = 0,
                              !.last_answer = [kind |-> "none"]]
    /\ UNCHANGED <<pc, exchanges, min_diff, token_info, tasks, results, raised,
                   prices, analysis, calls, resolver, multi,
                   concurrent, loop, cache, manager>>

\* the venue answers the request get_price awaits
AdapterRequest ==
    /\ pc = "retry"
    /\ retry.status = "request"
    /\ \E answer \in VenueAnswers : retry' = get_price_request(retry, answer)
    /\ UNCHANGED <<pc, exchanges, min_diff, token_info, tasks, results, raised,
                   prices, analysis, calls, resolver, multi,
                   concurrent, loop, cache, manager>>

\* lines 32, 50: the sleep between two attempts ends
RetrySleep ==
    /\ pc = "retry"
    /\ retry.status = "sleeping"
    /\ retry' = wrapper_after_sleep(retry)
    /\ UNCHANGED <<pc, exchanges, min_diff, token_info, tasks, results, raised,
                   prices, analysis, calls, resolver, multi,
                   concurrent, loop, cache, manager>>

NextRetry ==
    \/ RetryCall
    \/ RetryInvokeOperation
    \/ RetryInvokeAdapter
    \/ AdapterRequest
    \/ RetrySleep

SpecRetry == InitRetry /\ [][NextRetry]_vars

----------------------------------------------------------------------------
(* Claims about the retry wrapper and the adapters *)

Called == retry.status # "idle"

\* C14: a call through retry_on_failure(max_retries = N) invokes the
\* operation until its first success or N failures: it returns the value of
\* the first successful attempt k <= N after exactly k invocations, or
\* raises the exception of the N-th attempt after exactly N invocations,
\* whatever the causes of the failures.
C14_RetryUntilSuccessOrBudget ==
    Called =>
        LET n == Len(retry.outcomes) IN
        /\ retry.invocations <= retry.max_retries
        /\ \A k \in 1..(n - 1) : ~retry.outcomes[k].ok
        /\ retry.status = "returned" =>
            /\ n = retry.invocations
            /\ retry.outcomes[n].ok
            /\ retry.result = <<retry.outcomes[n].value>>
        /\ retry.status = "raised" =>
            /\ n = retry.invocations
            /\ n = retry.max_retries
            /\ ~retry.outcomes[n].ok
            /\ retry.exception = <<retry.outcomes[n].exception>>
        /\ retry.status = "sleeping" => n = retry.invocations /\ n < retry.max_retries

\* three attempts failed for different causes and the last one is raised
C14_Witness ==
    /\ Called
    /\ retry.status = "raised"
    /\ retry.func = "operation"
    /\ retry.max_retries = 3
    /\ retry.outcomes[1].exception.cause # retry.outcomes[3].exception.cause
    /\ retry.outcomes[2].exception.cause # retry.outcomes[3].exception.cause

\* C15: the n-th wait follows the n-th failed attempt and lasts delay * n;
\* there is a wait between every failed attempt and the next attempt and
\* nowhere else (none after the last failure, none after a success); the
\* async and the sync wrapper sleep the same amounts.
C15_LinearBackoffBetweenAttempts ==
    Called =>
        LET n == Len(retry.outcomes)
            waits == Len(retry.sleeps)
        IN  /\ \A k \in 1..waits :
                /\ retry.sleeps[k].seconds = retry.delay * k
                /\ retry.sleeps[k].how = SleepOf(retry.wrapper)
                /\ ~retry.outcomes[k].ok
            /\ retry.status \in {"attempt", "request"} => waits = n
            /\ retry.status \in {"sleeping", "returned", "raised"} => waits = n - 1

\* the sync wrapper slept 2 and 4 seconds and raised after the third failure
C15_Witness ==
    /\ Called
    /\ retry.status = "raised"
    /\ retry.wrapper = "sync"
    /\ retry.delay = 2
    /\ Len(retry.sleeps) = 2

C17_ErrorQuoteOnlyAfterRetryBudget ==
    (/\ Called
     /\ retry.func \in AdapterNames
     /\ retry.status = "returned"
     /\ retry.last_answer.kind = "exception"
     /\ retry.result[1].error # NoError)
        => retry.invocations = retry.max_retries

\* C18: an adapter whose venue requests all exceeded the timeout ends with
\* a Quote without price whose error is a non-empty text.
C18_TimeoutYieldsNonEmptyError ==
    (/\ Called
     /\ retry.func \in AdapterNames
     /\ retry.status = "returned"
     /\ retry.requests >= 1
     /\ retry.timeouts = retry.requests)
        => /\ retry.result[1].price = NoPrice
           /\ retry.result[1].error \notin {NoError, ""}

----------------------------------------------------------------------------
(* PriceChecker.check_multiple_tokens *)

\* longest token list the model passes to check_multiple_tokens
MaxTokens == 3

MultiTokens == {"SOL", "BTC", "xyz"}

TokenLists == UNION {[1..n -> MultiTokens] : n \in 0..MaxTokens}

\* what get_token_prices can return for a resolved token
FetchedLists ==
    {<<_create_error_price("Binance", "No trading pairs found")>>,
     <<ExchangePrice("Binance", 200, NoError)>>,
     <<ExchangePrice("Binance", 200, NoError), ExchangePrice("Bybit", 201, NoError)>>}

may_start_all_at_once(phases, k) == phases[k] = "waiting"

\* line 252: the loop reaches the k-th token when the turn of the token
\* before it has ended
may_start(phases, k) ==
    /\ phases[k] = "waiting"
    /\ IF k = 1 THEN TRUE ELSE phases[k - 1] = "finished"

\* lines 254-257: the turn of the k-th token ends with its entry stored
store_result(m, k, entry) ==
    [m EXCEPT !.phases[k] = "finished",
              !.results = MapPut(m.results, m.tokens[k], entry),
              !.order = Append(m.order, k)]

InitMulti ==
    /\ pc = "multi"
    /\ exchanges = <<>>
    /\ min_diff = DefaultMinDiff
    /\ token_info = <<>>
    /\ tasks = <<>>
    /\ results = <<>>
    /\ raised = FALSE
    /\ prices = <<>>
    /\ analysis = NoAnalysis
    /\ calls = 0
    /\ resolver = ResolverNew
    /\ retry = RetryIdle
    /\ multi = MultiIdle
    /\ concurrent = ConcurrentIdle
    /\ loop = LoopIdle
    /\ cache = CacheIdle
    /\ manager = ManagerIdle

\* line 251: a caller awaits check_multiple_tokens(tokens)
MultiCall ==
    /\ pc = "multi"
    /\ multi.status = "idle"
    /\ \E tokens \in TokenLists :
        multi' = [status |-> "running", tokens |-> tokens,
                  phases |-> [k \in 1..Len(tokens) |-> "waiting"],
                  results |-> EmptyMap, order |-> <<>>, unresolved |-> {}]
    /\ UNCHANGED <<pc, exchanges, min_diff, token_info, tasks, results, raised,
                   prices, analysis, calls, resolver, retry,
                   concurrent, loop, cache, manager>>

\* line 254: check_token_price(token) starts and awaits search_token
MultiStartToken(k) ==
    /\ pc = "multi"
    /\ multi.status = "running"
    /\ k \in 1..Len(multi.tokens)
    /\ may_start(multi.phases, k)
    /\ multi' = [multi EXCEPT !.phases[k] = "resolving"]
    /\ UNCHANGED <<pc, exchanges, min_diff, token_info, tasks, results, raised,
                   prices, analysis, calls, resolver, retry,
                   concurrent, loop, cache, manager>>

\* search_token ends: the token is resolved and the adapter calls are
\* gathered, or it is resolved and no adapter serves it, or it is not
\* resolved (lines 104-106, the empty list is analysed), or an exception
\* leaves check_token_price
MultiResolved(k) ==
    /\ pc = "multi"
    /\ multi.status = "running"
    /\ k \in 1..Len(multi.tokens)
    /\ multi.phases[k] = "resolving"
    /\ \/ multi' = [multi EXCEPT !.phases[k] = "fetching"]
       \/ multi' = store_result(multi, k, analyze_prices(<<>>, min_diff))
       \/ multi' = [store_result(multi, k, analyze_prices(<<>>, min_diff))
                        EXCEPT !.unresolved = multi.unresolved \cup {k}]
       \/ multi' = store_result(multi, k, [error |-> "Session is closed"])
    /\ UNCHANGED <<pc, exchanges, min_diff, token_info, tasks, results, raised,
                   prices, analysis, calls, resolver, retry,
                   concurrent, loop, cache, manager>>

\* the gather of the token ends; its prices are analysed and stored
MultiFetched(k) ==
    /\ pc = "multi"
    /\ multi.status = "running"
    /\ k \in 1..Len(multi.tokens)
    /\ multi.phases[k] = "fetching"
    /\ \E ps \in FetchedLists :
        multi' = store_result(multi, k, analyze_prices(ps, min_diff))
    /\ UNCHANGED <<pc, exchanges, min_diff, token_info, tasks, results, raised,
                   prices, analysis, calls, resolver, retry,
                   concurrent, loop, cache, manager>>

\* line 259: the loop is over
MultiReturn ==
    /\ pc = "multi"
    /\ multi.status = "running"
    /\ \A k \in 1..Len(multi.tokens) : multi.phases[k] = "finished"
    /\ multi' = [multi EXCEPT !.status = "returned"]
    /\ UNCHANGED <<pc, exchanges, min_diff, token_info, tasks, results, raised,
                   prices, analysis, calls, resolver, retry,
                   concurrent, loop, cache, manager>>

NextMulti ==
    \/ MultiCall
    \/ \E k \in 1..MaxTokens : MultiStartToken(k)
    \/ \E k \in 1..MaxTokens : MultiResolved(k)
    \/ \E k \in 1..MaxTokens : MultiFetched(k)
    \/ MultiReturn

SpecMulti == InitMulti /\ [][NextMulti]_vars

\* C20: check_multiple_tokens handles the tokens one at a time in input
\* order: the resolution and the adapter calls of a token have not started
\* unless the analysis of every token before it is stored, so at most one
\* token is in its turn and the turns end in the order of the list.
C20_OneTokenAtATime ==
    multi.status \in {"running", "returned"} =>
        /\ \A k \in 1..Len(multi.tokens) :
              multi.phases[k] # "waiting" =>
                  \A j \in 1..(k - 1) : multi.phases[j] = "finished"
        /\ \A k \in 1..Len(multi.order) : multi.order[k] = k

\* the first token is done, the second is fetching, the third has not started
C20_Witness ==
    /\ multi.status = "running"
    /\ Len(multi.tokens) = 3
    /\ multi.phases[1] = "finished"
    /\ multi.phases[2] = "fetching"
    /\ multi.phases[3] = "waiting"

\* C21: the mapping check_multiple_tokens returns has an entry for every
\* query of the input, every turn has ended whatever happened in the turns
\* before it, and a query that was never resolved is mapped to an error
\* rather than to an analysis.
C21_UnresolvedMappedToError ==
    multi.status = "returned" =>
        /\ \A k \in 1..Len(multi.tokens) : multi.tokens[k] \in DOMAIN multi.results
        /\ Len(multi.order) = Len(multi.tokens)
        /\ \A k \in 1..Len(multi.tokens) :
              (\A j \in 1..Len(multi.tokens) :
                    multi.tokens[j] = multi.tokens[k] => j \in multi.unresolved)
                  => "error" \in DOMAIN multi.results[multi.tokens[k]]

----------------------------------------------------------------------------
(* Two get_token_prices calls on one PriceChecker: the resolver's session *)

Callers == {"A", "B"}
ConcurrentTokens == {"SOL", "BTC"}

\* _make_request is decorated with retry_on_failure(max_retries=3, delay=1.0)
RequestRetries == 3

\* a call that has not started
CallNew(token) ==
    [at |-> "start", token |-> token, what |-> "none", using |-> "None",
     attempt |-> 0, result |-> "none"]

\* search_token / get_token_info give up: the except branches return None;
\* a failed detail fetch is stored as None under the search key
request_gave_up(con, c) ==
    [con EXCEPT !.calls[c].at = "exit", !.calls[c].result = "None",
                !.calls[c].what = "none", !.calls[c].using = "None"]

\* retry_on_failure around _make_request: the attempt failed
request_failed(con, c, what, attempt) ==
    IF attempts_remain(attempt, RequestRetries)
    THEN [con EXCEPT !.calls[c].at = "sleeping", !.calls[c].what = what,
                     !.calls[c].using = "None", !.calls[c].attempt = attempt]
    ELSE request_gave_up(con, c)

\* line 68: self.session.get(...) on the session the resolver holds now; a
\* closed session raises at once, an open one carries the request
issue(con, c, what, attempt) ==
    IF con.session # "None" /\ con.sessions[con.session] = "open"
    THEN [con EXCEPT !.calls[c].at = "inflight", !.calls[c].what = what,
                     !.calls[c].using = con.session, !.calls[c].attempt = attempt]
    ELSE request_failed(con, c, what, attempt)

\* the token is resolved: cached under the info and the search key, returned
resolved_token(con, c) ==
    [con EXCEPT !.cached = con.cached \cup {con.calls[c].token},
                !.calls[c].at = "exit", !.calls[c].result = "resolved",
                !.calls[c].what = "none", !.calls[c].using = "None"]

\* lines 99-101 and 120-126: after coins/list, get_token_info answers from
\* the cache or requests coins/{id}
after_list(con, c) ==
    IF con.calls[c].token \in con.cached
    THEN resolved_token(con, c)
    ELSE issue(con, c, "detail", 0)

\* the request in flight was answered
request_answered(con, c) ==
    IF con.calls[c].what = "list" THEN after_list(con, c) ELSE resolved_token(con, c)

InitConcurrent ==
    /\ pc = "concurrent"
    /\ exchanges = <<>>
    /\ min_diff = DefaultMinDiff
    /\ token_info = <<>>
    /\ tasks = <<>>
    /\ results = <<>>
    /\ raised = FALSE
    /\ prices = <<>>
    /\ analysis = NoAnalysis
    /\ calls = 0
    /\ resolver = ResolverNew
    /\ retry = RetryIdle
    /\ multi = MultiIdle
    /\ \E tokenA, tokenB \in ConcurrentTokens :
        concurrent = [status |-> "running", session |-> "None",
                      sessions |-> [c \in Callers |-> "none"],
                      cached |-> {},
                      calls |-> [c \in Callers |->
                                    CallNew(IF c = "A" THEN tokenA ELSE tokenB)]]
    /\ loop = LoopIdle
    /\ cache = CacheIdle
    /\ manager = ManagerIdle

\* price_checker.py lines 102-103: __aenter__ replaces self.session by a new
\* ClientSession, then search_token runs up to its first request
CallEnters(c) ==
    /\ pc = "concurrent"
    /\ concurrent.calls[c].at = "start"
    /\ LET con == [concurrent EXCEPT !.session = c, !.sessions[c] = "open"]
       IN  concurrent' =
             IF con.calls[c].token \in con.cached
             THEN resolved_token(con, c)
             ELSE issue(con, c, "list", 0)
    /\ UNCHANGED <<pc, exchanges, min_diff, token_info, tasks, results, raised,
                   prices, analysis, calls, resolver, retry, multi,
                   loop, cache, manager>>

\* the metadata source answers the request in flight; a request whose
\* session was closed meanwhile is answered or fails
RequestEnds(c) ==
    /\ pc = "concurrent"
    /\ concurrent.calls[c].at = "inflight"
    /\ \/ concurrent' = request_answered(concurrent, c)
       \/ /\ concurrent.sessions[concurrent.calls[c].using] = "closed"
          /\ concurrent' = request_failed(concurrent, c, concurrent.calls[c].what,
                                          concurrent.calls[c].attempt)
    /\ UNCHANGED <<pc, exchanges, min_diff, token_info, tasks, results, raised,
                   prices, analysis, calls, resolver, retry, multi,
                   loop, cache, manager>>

\* the backoff sleep of _make_request ends and the request is made again
RequestRetried(c) ==
    /\ pc = "concurrent"
    /\ concurrent.calls[c].at = "sleeping"
    /\ concurrent' = issue(concurrent, c, concurrent.calls[c].what,
                           concurrent.calls[c].attempt + 1)
    /\ UNCHANGED <<pc, exchanges, min_diff, token_info, tasks, results, raised,
                   prices, analysis, calls, resolver, retry, multi,
                   loop, cache, manager>>

\* token_resolver.py lines 38-41: __aexit__ closes the session the resolver
\* holds now
CallExits(c) ==
    /\ pc = "concurrent"
    /\ concurrent.calls[c].at = "exit"
    /\ concurrent' =
         [concurrent EXCEPT
            !.calls[c].at = "done",
            !.sessions = IF concurrent.session = "None" THEN @
                         ELSE [@ EXCEPT ![concurrent.session] = "closed"]]
    /\ UNCHANGED <<pc, exchanges, min_diff, token_info, tasks, results, raised,
                   prices, analysis, calls, resolver, retry, multi,
                   loop, cache, manager>>

NextConcurrent ==
    \/ \E c \in Callers : CallEnters(c)
    \/ \E c \in Callers : RequestEnds(c)
    \/ \E c \in Callers : RequestRetried(c)
    \/ \E c \in Callers : CallExits(c)

SpecConcurrent == InitConcurrent /\ [][NextConcurrent]_vars

\* C23: with a reachable metadata source each of two concurrent
\* get_token_prices calls resolves its token, as it does when run alone,
\* whatever the other call does to the resolver's session.
C23_ResolutionUnaffectedByOtherCall ==
    concurrent.status = "running" =>
        \A c \in Callers :
            concurrent.calls[c].at \in {"exit", "done"}
                => concurrent.calls[c].result = "resolved"

\* C24: while prices are fetched the number of attempts the retry wrapper
\* allows and the timeout of the adapter's request are the configured
\* comparison.max_retries and comparison.timeout_seconds.
C24_ConfiguredRetriesAndTimeoutUsed ==
    (Called /\ retry.func \in AdapterNames) =>
        /\ retry.max_retries = retry.config.max_retries
        /\ retry.timeout = retry.config.timeout_seconds

ValidShape(quote) == quote.price # NoPrice /\ quote.price > 0 /\ quote.error = NoError
FailureShape(quote) == quote.price = NoPrice /\ quote.error # NoError

----------------------------------------------------------------------------
(* The counts of an analysis *)

\* C28: in every result of analyze_prices count is the number of input
\* quotes, valid_count the number of valid ones, error_count the number of
\* invalid ones and count = valid_count + error_count, also when no quote
\* of the input is valid.
C28_CountsPartitionInput ==
    (pc = "analyzed" /\ "exception" \notin DOMAIN analysis) =>
        /\ analysis.count = Len(prices)
        /\ analysis.valid_count = Len(valid_prices(prices))
        /\ analysis.error_count = Len(prices) - Len(valid_prices(prices))
        /\ analysis.count = analysis.valid_count + analysis.error_count

----------------------------------------------------------------------------
(* The event loop running the gathered get_price calls *)

\* a get_price coroutine on the event loop:
\*   "ready"     created by gather, first step not run yet
\*   "blocked"   inside a synchronous web3 .call(): the coroutine is waiting
\*               for the RPC node and keeps the loop's thread
\*   "awaiting"  suspended in an aiohttp request, the thread is released
\*   "resumable" the response arrived, the coroutine waits for the thread
\*   "done"      returned or raised
TaskPhases == {"ready", "blocked", "awaiting", "resumable", "done"}

\* where the first step of get_price stops: aiohttp requests are awaited
\* (session.get, response.json), the web3 adapters call the synchronous
\* HTTPProvider through .call() without any await on the way
first_step(name) == IF name \in OnChain THEN "blocked" ELSE "awaiting"

\* the adapter is waiting for an answer of the network
InNetworkIO(i) == loop.phase[i] \in {"blocked", "awaiting"}

gather_results_as_completed(rs, order) == [k \in 1..Len(order) |-> rs[order[k]]]

\* asyncio.gather: the list of results follows the order of the awaitables,
\* not the order of completion
gather_results(rs, order) == rs

\* position of an adapter in PriceChecker.exchanges
PositionIn(exs, name) == CHOOSE k \in 1..Len(exs) : exs[k] = name

LoopRunning(n) ==
    [status |-> "running",
     phase |-> [i \in 1..n |-> "ready"],
     holder |-> 0,
     order |-> <<>>]

\* get_token_prices has resolved the token and built its coroutines; the
\* await on gather is next
InitLoop ==
    /\ pc = "gather"
    /\ \E enabled \in SUBSET {ExchangeNames[k] : k \in 1..Len(ExchangeNames)} :
           exchanges = _setup_exchanges(enabled)
    /\ min_diff = DefaultMinDiff
    /\ token_info \in TokenInfos \ {<<>>}
    /\ tasks = build_tasks(exchanges, token_info[1])
    /\ tasks # <<>>
    /\ results = [i \in 1..Len(tasks) |-> Pending]
    /\ raised = FALSE
    /\ prices = <<>>
    /\ analysis = NoAnalysis
    /\ calls = 0
    /\ resolver = ResolverNew
    /\ retry = RetryIdle
    /\ multi = MultiIdle
    /\ concurrent = ConcurrentIdle
    /\ loop = LoopRunning(Len(tasks))
    /\ cache = CacheIdle
    /\ manager = ManagerIdle

\* the loop runs the first step of the i-th coroutine, after those of the
\* coroutines gather scheduled before it, when its thread is free
TaskStarts(i) ==
    /\ pc = "gather"
    /\ i \in DOMAIN loop.phase
    /\ loop.phase[i] = "ready"
    /\ loop.holder = 0
    /\ \A j \in 1..(i - 1) : loop.phase[j] # "ready"
    /\ loop' = [loop EXCEPT
                  !.phase[i] = first_step(tasks[i].exchange),
                  !.holder = IF first_step(tasks[i].exchange) = "blocked"
                             THEN i ELSE 0]
    /\ UNCHANGED <<pc, exchanges, min_diff, token_info, tasks, results, raised,
                   prices, analysis, calls>>
    /\ UNCHANGED <<resolver, retry, multi, concurrent, cache, manager>>

\* the synchronous calls of a web3 adapter return (or raise) and get_price
\* runs to its end in the same step
SyncCallReturns(i) ==
    /\ pc = "gather"
    /\ i \in DOMAIN loop.phase
    /\ loop.phase[i] = "blocked"
    /\ loop.holder = i
    /\ \E o \in AdapterOutcomes(tasks[i].exchange) :
           results' = [results EXCEPT ![i] = o]
    /\ loop' = [loop EXCEPT !.phase[i] = "done", !.holder = 0,
                            !.order = Append(loop.order, i)]
    /\ UNCHANGED <<pc, exchanges, min_diff, token_info, tasks, raised,
                   prices, analysis, calls>>
    /\ UNCHANGED <<resolver, retry, multi, concurrent, cache, manager>>

\* the response (or the timeout) of an awaited request arrives
NetworkAnswers(i) ==
    /\ pc = "gather"
    /\ i \in DOMAIN loop.phase
    /\ loop.phase[i] = "awaiting"
    /\ loop' = [loop EXCEPT !.phase[i] = "resumable"]
    /\ UNCHANGED <<pc, exchanges, min_diff, token_info, tasks, results, raised,
                   prices, analysis, calls>>
    /\ UNCHANGED <<resolver, retry, multi, concurrent, cache, manager>>

\* the loop resumes a coroutine whose response arrived; the first steps
\* gather scheduled are all ahead of it in the ready queue
TaskResumes(i) ==
    /\ pc = "gather"
    /\ i \in DOMAIN loop.phase
    /\ loop.phase[i] = "resumable"
    /\ loop.holder = 0
    /\ \A j \in DOMAIN loop.phase : loop.phase[j] # "ready"
    /\ \E o \in AdapterOutcomes(tasks[i].exchange) :
           results' = [results EXCEPT ![i] = o]
    /\ loop' = [loop EXCEPT !.phase[i] = "done",
                            !.order = Append(loop.order, i)]
    /\ UNCHANGED <<pc, exchanges, min_diff, token_info, tasks, raised,
                   prices, analysis, calls>>
    /\ UNCHANGED <<resolver, retry, multi, concurrent, cache, manager>>

\* lines 140-151: the join, then the filter
LoopGatherReturns ==
    /\ pc = "gather"
    /\ loop.status = "running"
    /\ \A i \in DOMAIN loop.phase : loop.phase[i] = "done"
    /\ prices' = collect_prices(gather_results(results, loop.order))
    /\ pc' = "returned"
    /\ UNCHANGED <<exchanges, min_diff, token_info, tasks, results, raised,
                   analysis, calls>>
    /\ UNCHANGED <<resolver, retry, multi, concurrent, loop, cache, manager>>

NextLoop ==
    \/ \E i \in 1..Len(ExchangeNames) : TaskStarts(i)
    \/ \E i \in 1..Len(ExchangeNames) : SyncCallReturns(i)
    \/ \E i \in 1..Len(ExchangeNames) : NetworkAnswers(i)
    \/ \E i \in 1..Len(ExchangeNames) : TaskResumes(i)
    \/ LoopGatherReturns

SpecLoop == InitLoop /\ [][NextLoop]_vars

\* the loop's thread is free to run a step of the i-th coroutine
CanRun(i) == loop.holder \in {0, i}

\* C26: while an adapter waits for the network, the thread of the event loop
\* is free for the call of every other adapter that has not ended: it can be
\* started or resumed, and can complete before the waiting one.
C26_NetworkIOReleasesTheLoop ==
    (pc = "gather" /\ loop.status = "running") =>
        \A i, j \in DOMAIN loop.phase :
            (i # j /\ InNetworkIO(i) /\ loop.phase[j] # "done") => CanRun(j)

\* the results whose type is ExchangePrice, by task position
PriceResults == {i \in 1..Len(results) : results[i].type = "ExchangePrice"}

\* C29: the list get_token_prices returns holds the Quote of every call that
\* returned one, in the order of the adapters in PriceChecker.exchanges,
\* whatever the order in which the calls completed.
C29_ReturnedInDispatchOrder ==
    (pc = "returned" /\ loop.status = "running") =>
        /\ Len(prices) = Cardinality(PriceResults)
        /\ \A i \in PriceResults :
               \E k \in 1..Len(prices) : prices[k] = QuoteOf(results[i])
        /\ \A a, b \in 1..Len(prices) :
               a < b => PositionIn(exchanges, prices[a].exchange_name)
                           < PositionIn(exchanges, prices[b].exchange_name)

\* returned after a later call completed before an earlier one, both with a
\* Quote
C29_Witness ==
    /\ pc = "returned"
    /\ loop.status = "running"
    /\ \E a, b \in 1..Len(loop.order) :
        /\ a < b
        /\ loop.order[a] > loop.order[b]
        /\ {loop.order[a], loop.order[b]} \subseteq PriceResults

----------------------------------------------------------------------------
(* utils.AsyncCache on its own: get, set and clear in any order *)

\* operations the model makes on one cache
MaxCacheOps == 5

\* the key of a query and the key of a canonical id of one token
CacheKeys == {search_key("SOL"), info_key("solana")}

\* what is stored: a token, another one, or None
CacheValues == {<<"solana">>, <<"wrapped-solana">>, <<>>}

\* AsyncCache.__init__, with what the model remembers of the calls:
\* `written` is the value and the time of the last set of every key since
\* the last clear, `last` the last call, its result and the dicts before it
CacheNew ==
    [status |-> "live",
     r |-> [_cache |-> EmptyMap, _timestamps |-> EmptyMap],
     now |-> 0,
     ops |-> 0,
     written |-> EmptyMap,
     last |-> [op |-> "none", key |-> "", value |-> <<>>,
               before |-> [_cache |-> EmptyMap, _timestamps |-> EmptyMap]]]

InitCache ==
    /\ pc = "cache"
    /\ exchanges = <<>>
    /\ min_diff = DefaultMinDiff
    /\ token_info = <<>>
    /\ tasks = <<>>
    /\ results = <<>>
    /\ raised = FALSE
    /\ prices = <<>>
    /\ analysis = NoAnalysis
    /\ calls = 0
    /\ resolver = ResolverNew
    /\ retry = RetryIdle
    /\ multi = MultiIdle
    /\ concurrent = ConcurrentIdle
    /\ loop = LoopIdle
    /\ cache = CacheNew
    /\ manager = ManagerIdle

\* await cache.get(key)
CacheGet(key) ==
    /\ pc = "cache"
    /\ cache.ops < MaxCacheOps
    /\ LET got == cache_get(cache.r, key, cache.now) IN
        cache' = [cache EXCEPT
                    !.r = got.r,
                    !.ops = cache.ops + 1,
                    !.last = [op |-> "get", key |-> key, value |-> got.value,
                              before |-> cache.r]]
    /\ UNCHANGED <<pc, exchanges, min_diff, token_info, tasks, results, raised,
                   prices, analysis, calls>>
    /\ UNCHANGED <<resolver, retry, multi, concurrent, loop, manager>>

\* await cache.set(key, value)
CacheSet(key, value) ==
    /\ pc = "cache"
    /\ cache.ops < MaxCacheOps
    /\ cache' = [cache EXCEPT
                   !.r = cache_set(cache.r, key, value, cache.now),
                   !.ops = cache.ops + 1,
                   !.written = MapPut(cache.written, key,
                                      [value |-> value, at |-> cache.now]),
                   !.last = [op |-> "set", key |-> key, value |-> value,
                             before |-> cache.r]]
    /\ UNCHANGED <<pc, exchanges, min_diff, token_info, tasks, results, raised,
                   prices, analysis, calls>>
    /\ UNCHANGED <<resolver, retry, multi, concurrent, loop, manager>>

\* cache.clear()
CacheClear ==
    /\ pc = "cache"
    /\ cache.ops < MaxCacheOps
    /\ cache' = [cache EXCEPT
                   !.r = cache_clear(cache.r),
                   !.ops = cache.ops + 1,
                   !.written = EmptyMap,
                   !.last = [op |-> "clear", key |-> "", value |-> <<>>,
                             before |-> cache.r]]
    /\ UNCHANGED <<pc, exchanges, min_diff, token_info, tasks, results, raised,
                   prices, analysis, calls>>
    /\ UNCHANGED <<resolver, retry, multi, concurrent, loop, manager>>

\* time passes between two calls
CacheTick ==
    /\ pc = "cache"
    /\ cache.now + TimeUnit <= MaxTime
    /\ cache' = [cache EXCEPT
                   !.now = cache.now + TimeUnit,
                   !.last = [op |-> "none", key |-> "", value |-> <<>>,
                             before |-> cache.r]]
    /\ UNCHANGED <<pc, exchanges, min_diff, token_info, tasks, results, raised,
                   prices, analysis, calls>>
    /\ UNCHANGED <<resolver, retry, multi, concurrent, loop, manager>>

NextCache ==
    \/ \E key \in CacheKeys : CacheGet(key)
    \/ \E key \in CacheKeys, value \in CacheValues : CacheSet(key, value)
    \/ CacheClear
    \/ CacheTick

SpecCache == InitCache /\ [][NextCache]_vars

\* less than ttl has passed since the last set of the key
WrittenAndYoung(key) ==
    /\ key \in DOMAIN cache.written
    /\ cache.now - cache.written[key].at < CacheTTL

\* C27: the two dicts of the cache always have the same keys; get(k)
\* returns the value of the last set(k) if less than ttl has passed since
\* that set and None otherwise; a get that finds k expired deletes k and
\* leaves every other entry, value and timestamp, as it was, so that the
\* entry of a query and the entry of a canonical id expire each on its own
\* timestamp.
C27_EntriesExpireOnTheirOwn ==
    cache.status = "live" =>
        /\ DOMAIN cache.r._cache = DOMAIN cache.r._timestamps
        /\ cache.last.op = "get" =>
            /\ cache.last.value =
                   IF WrittenAndYoung(cache.last.key)
                   THEN cache.written[cache.last.key].value
                   ELSE <<>>
            /\ \A k \in CacheKeys \ {cache.last.key} :
                   /\ k \in DOMAIN cache.r._cache
                          <=> k \in DOMAIN cache.last.before._cache
                   /\ k \in DOMAIN cache.r._cache =>
                          /\ cache.r._cache[k] = cache.last.before._cache[k]
                          /\ cache.r._timestamps[k]
                                 = cache.last.before._timestamps[k]
            /\ cache.last.key \in DOMAIN cache.r._cache
                   <=> WrittenAndYoung(cache.last.key)

\* a get deleted the expired entry of the canonical id while the entry of
\* the query, written later with the same token, stays and is still young
C27_Witness ==
    /\ cache.status = "live"
    /\ cache.last.op = "get"
    /\ cache.last.key = info_key("solana")
    /\ cache.last.value = <<>>
    /\ info_key("solana") \in DOMAIN cache.last.before._cache
    /\ info_key("solana") \notin DOMAIN cache.r._cache
    /\ search_key("SOL") \in DOMAIN cache.r._cache
    /\ cache.r._cache[search_key("SOL")] = <<"solana">>
    /\ cache.last.before._cache[info_key("solana")] = <<"solana">>
    /\ WrittenAndYoung(search_key("SOL"))

----------------------------------------------------------------------------
(* api/routes/websocket.py: the ConnectionManager of the price stream *)

Connections == {"w1", "w2"}

\* tokens as clients and the update worker spell them
TypedTokens == {"sol", "SOL", "BTC"}

\* no broadcast_token_update call is running
BroadcastIdle == [status |-> "idle"]

\* ConnectionManager.__init__, with the endpoint handler of every connection
\* ("new": not accepted yet, "handling", "ended") and the connections the
\* manager was told to forget or failed to reach (`dropped`)
ManagerNew ==
    [status |-> "live",
     active_connections |-> {},
     token_subscriptions |-> EmptyMap,
     handlers |-> [c \in Connections |-> "new"],
     dropped |-> {},
     broadcast |-> BroadcastIdle]

\* lines 32-35, 51-53: discard the connection from the sets of the given
\* tokens and delete the sets left empty
discard_from(subs, tokens, ws) ==
    [t \in {u \in DOMAIN subs : u \notin tokens \/ subs[u] \ {ws} # {}} |->
        IF t \in tokens THEN subs[t] \ {ws} ELSE subs[t]]

\* ConnectionManager.disconnect: the two collections afterwards
disconnect(m, ws) ==
    [m EXCEPT
        !.active_connections = m.active_connections \ {ws},
        !.token_subscriptions =
            discard_from(m.token_subscriptions, DOMAIN m.token_subscriptions, ws)]

\* ConnectionManager.subscribe_token
subscribe_token(m, ws, token) ==
    LET t == Upper(token) IN
    [m EXCEPT !.token_subscriptions =
        MapPut(m.token_subscriptions, t,
               (IF t \in DOMAIN m.token_subscriptions
                THEN m.token_subscriptions[t] ELSE {}) \cup {ws})]

\* ConnectionManager.unsubscribe_token
unsubscribe_token(m, ws, token) ==
    [m EXCEPT !.token_subscriptions =
        discard_from(m.token_subscriptions, {Upper(token)}, ws)]

\* the set object a running broadcast iterates, after the manager's dict
\* changed: the same object while the token keeps its entry; once the entry
\* is deleted the iterator is left with the emptied set, and a later
\* subscribe_token makes a new one
track(m) ==
    IF m.broadcast.status = "idle" \/ ~m.broadcast.attached
    THEN m
    ELSE IF m.broadcast.token \in DOMAIN m.token_subscriptions
         THEN [m EXCEPT !.broadcast.iterated =
                            m.token_subscriptions[m.broadcast.token]]
         ELSE [m EXCEPT !.broadcast.iterated = {},
                        !.broadcast.attached = FALSE]

RECURSIVE disconnect_all(_, _)
\* lines 82-83: disconnect every connection a send failed for
disconnect_all(m, failed) ==
    IF failed = {} THEN m
    ELSE LET ws == CHOOSE c \in failed : TRUE
         IN  disconnect_all(disconnect(m, ws), failed \ {ws})

InitManager ==
    /\ pc = "manager"
    /\ exchanges = <<>>
    /\ min_diff = DefaultMinDiff
    /\ token_info = <<>>
    /\ tasks = <<>>
    /\ results = <<>>
    /\ raised = FALSE
    /\ prices = <<>>
    /\ analysis = NoAnalysis
    /\ calls = 0
    /\ resolver = ResolverNew
    /\ retry = RetryIdle
    /\ multi = MultiIdle
    /\ concurrent = ConcurrentIdle
    /\ loop = LoopIdle
    /\ cache = CacheIdle
    /\ manager = ManagerNew

\* websocket_prices, line 99: manager.connect(websocket)
ManagerConnect(ws) ==
    /\ pc = "manager"
    /\ manager.handlers[ws] = "new"
    /\ manager' = [manager EXCEPT
                     !.active_connections = manager.active_connections \cup {ws},
                     !.handlers[ws] = "handling"]
    /\ UNCHANGED <<pc, exchanges, min_diff, token_info, tasks, results, raised,
                   prices, analysis, calls>>
    /\ UNCHANGED <<resolver, retry, multi, concurrent, loop, cache>>

\* websocket_prices, lines 110-111: a client asks to subscribe
ManagerSubscribe(ws, token) ==
    /\ pc = "manager"
    /\ manager.handlers[ws] = "handling"
    /\ manager' = track(subscribe_token(manager, ws, token))
    /\ UNCHANGED <<pc, exchanges, min_diff, token_info, tasks, results, raised,
                   prices, analysis, calls>>
    /\ UNCHANGED <<resolver, retry, multi, concurrent, loop, cache>>

\* websocket_prices, lines 143-144: a client asks to unsubscribe
ManagerUnsubscribe(ws, token) ==
    /\ pc = "manager"
    /\ manager.handlers[ws] = "handling"
    /\ manager' = track(unsubscribe_token(manager, ws, token))
    /\ UNCHANGED <<pc, exchanges, min_diff, token_info, tasks, results, raised,
                   prices, analysis, calls>>
    /\ UNCHANGED <<resolver, retry, multi, concurrent, loop, cache>>

\* websocket_prices, lines 157-161: the client went away or the handler
\* failed; the handler disconnects and ends
ManagerDisconnect(ws) ==
    /\ pc = "manager"
    /\ manager.handlers[ws] = "handling"
    /\ manager' = track([disconnect(manager, ws) EXCEPT
                            !.handlers[ws] = "ended",
                            !.dropped = manager.dropped \cup {ws}])
    /\ UNCHANGED <<pc, exchanges, min_diff, token_info, tasks, results, raised,
                   prices, analysis, calls>>
    /\ UNCHANGED <<resolver, retry, multi, concurrent, loop, cache>>

\* what the `for` of line 70 does when it asks the set for its next
\* connection: RuntimeError (the call ends at once, lines 81-83 skipped) if
\* the size of the set changed since the iteration began, the clean-up of
\* lines 81-83 and the return if no connection is left, else the next send
next_connection(m) ==
    IF Cardinality(m.broadcast.iterated) # m.broadcast.size
    THEN {[m EXCEPT !.broadcast = BroadcastIdle]}
    ELSE IF m.broadcast.todo \cap m.broadcast.iterated = {}
         THEN {[disconnect_all(m, m.broadcast.disconnected)
                    EXCEPT !.broadcast = BroadcastIdle]}
         ELSE {[m EXCEPT !.broadcast.current = ws,
                         !.broadcast.todo = m.broadcast.todo \ {ws}] :
                  ws \in m.broadcast.todo \cap m.broadcast.iterated}

\* lines 65-72: broadcast_token_update of the update worker; without
\* subscribers it returns, otherwise it runs up to its first awaited send
BroadcastStarts(token) ==
    /\ pc = "manager"
    /\ manager.broadcast.status = "idle"
    /\ LET t == Upper(token) IN
        IF t \notin DOMAIN manager.token_subscriptions
        THEN manager' = manager
        ELSE manager' \in next_connection(
                 [manager EXCEPT !.broadcast =
                     [status |-> "sending",
                      token |-> t,
                      size |-> Cardinality(manager.token_subscriptions[t]),
                      iterated |-> manager.token_subscriptions[t],
                      attached |-> TRUE,
                      todo |-> manager.token_subscriptions[t],
                      current |-> "",
                      disconnected |-> {}]])
    /\ UNCHANGED <<pc, exchanges, min_diff, token_info, tasks, results, raised,
                   prices, analysis, calls>>
    /\ UNCHANGED <<resolver, retry, multi, concurrent, loop, cache>>

\* lines 72-83: the awaited send returns or raises, and the call runs on to
\* its next awaited send or to its end
BroadcastSendEnds ==
    /\ pc = "manager"
    /\ manager.broadcast.status = "sending"
    /\ \/ manager' \in next_connection(manager)
       \/ manager' \in next_connection(
              [manager EXCEPT
                 !.broadcast.disconnected =
                     manager.broadcast.disconnected \cup {manager.broadcast.current},
                 !.dropped = manager.dropped \cup {manager.broadcast.current}])
    /\ UNCHANGED <<pc, exchanges, min_diff, token_info, tasks, results, raised,
                   prices, analysis, calls>>
    /\ UNCHANGED <<resolver, retry, multi, concurrent, loop, cache>>

NextManager ==
    \/ \E ws \in Connections : ManagerConnect(ws)
    \/ \E ws \in Connections, token \in TypedTokens : ManagerSubscribe(ws, token)
    \/ \E ws \in Connections, token \in TypedTokens : ManagerUnsubscribe(ws, token)
    \/ \E ws \in Connections : ManagerDisconnect(ws)
    \/ \E token \in TypedTokens : BroadcastStarts(token)
    \/ BroadcastSendEnds

SpecManager == InitManager /\ [][NextManager]_vars

\* no token is mapped to an empty set and every key is upper case
SubscriptionsTidy ==
    manager.status = "live" =>
        \A t \in DOMAIN manager.token_subscriptions :
            /\ manager.token_subscriptions[t] # {}
            /\ Upper(t) = t

\* C30: between the calls of the manager no token is mapped to an empty
\* set, every key is upper case, and a connection that was disconnected, by
\* disconnect or by a send of a broadcast that failed, is neither in
\* active_connections nor in the set of any token.
C30_DisconnectedIsForgotten ==
    (manager.status = "live" /\ manager.broadcast.status = "idle") =>
        /\ SubscriptionsTidy
        /\ \A ws \in manager.dropped :
            /\ ws \notin manager.active_connections
            /\ \A t \in DOMAIN manager.token_subscriptions :
                   ws \notin manager.token_subscriptions[t]

====
